---- MODULE Spec2Model ----
(***************************************************************************)
(* Knowledge-Graph: the recommendation endpoint (GET /api/recommendations)  *)
(* and the graph builders of lib/graph/transform, as state machines.        *)
(*                                                                          *)
(* Spec       the request handler GET, one action per block of the handler  *)
(*            (validation, target fetch, the four signals, ranking,         *)
(*            resolution).  The rows the store returns are inputs.          *)
(* SpecGraph  the cluster builders applied to bounded inputs.               *)
(* SpecStar   the star builder, the word page and the earlier word focus    *)
(*            builder.                                                      *)
(* SpecGalaxy the galaxy builder and the earlier unit overview builder.     *)
(* SpecViews  every builder, on the inputs of the three above.              *)
(* SpecTwice  every builder, called again on the same inputs.               *)
(* SpecSignals the four signals of the handler against stored rows.         *)
(* SpecExplore the loads of the explore page, their fetches resolving in    *)
(*            any order; SpecExploreLive adds that every fetch resolves.    *)
(***************************************************************************)
EXTENDS Integers, Sequences, FiniteSets, TLC

VARIABLES
    pc,              \* position in GET
    wordIdParam,     \* searchParams.get("wordId"):  Null or Some(string)
    limitParam,      \* searchParams.get("limit"):   Null or Some(string)
    targetId,        \* parseInt(wordId)
    limit,           \* parseInt(limit || "10")
    targetWord,      \* the row of the focal word, Null when not found
    rootSiblings,    \* rows received for signal 1
    rels,            \* rows received for signal 2
    siblings,        \* rows received for signal 3
    diffWords,       \* rows received for signal 4
    scores,          \* the Map id -> {score, reasons}, in insertion order
    ranked,          \* sorted and sliced entries of scores
    words,           \* ids of the rows found by the batch lookup
    queries,         \* the data accesses made so far, in order
    status,          \* HTTP status of the response, 0 while none was sent
    recommendations, \* the recommendations of the response body
    store,           \* the stored rows a request reads, Null when any rows
    call,            \* the builder the inputs are for
    view,            \* which builder produced graphData ("none" before a call)
    unit,            \* builder input: the unit
    subThemes,       \* builder input: sub_theme rows
    unitWords,       \* builder input: word rows carrying sub_theme_id
    relationships,   \* builder input: word_relationship rows
    focusData,       \* builder input: WordFocusData of the star view
    wordArgs,        \* inputs of the word page and of buildWordFocusGraph
    units,           \* builder input: the units of the galaxy view
    wordCounts,      \* builder input: Record<code, count>, a partial map
    crossUnitLinks,  \* builder input: cross-unit connection rows
    page,            \* what the word page lists under "Words in Same Theme"
    graphData,       \* builder output {nodes, links}
    loading,         \* explore page: the loading overlay is shown
    zoomLevel,       \* explore page: 1 galaxy, 2 cluster, 3 star
    activeUnit,      \* explore page: Null or Some(unit code)
    breadcrumb,      \* explore page: the breadcrumb items
    pending,         \* explore page: the loads whose fetch has not resolved
    lastNav          \* explore page: the navigation requested last, if any

recVars == <<pc, wordIdParam, limitParam, targetId, limit, targetWord,
             rootSiblings, rels, siblings, diffWords, scores, ranked, words,
             queries, status, recommendations>>
inputVars == <<store, call, unit, subThemes, unitWords, relationships, focusData,
               wordArgs, units, wordCounts, crossUnitLinks>>
exploreVars == <<loading, zoomLevel, activeUnit, breadcrumb, pending, lastNav>>
graphVars == <<inputVars, exploreVars, view, page, graphData>>
vars == <<recVars, graphVars>>

-----------------------------------------------------------------------------
(* Bounds *)

MaxWordId == 3      \* word ids are 1..MaxWordId
MaxRootRows == 2    \* rows of the same-root lookup
MaxRelRows == 1     \* rows of get_word_connections
MaxSibRows == 1     \* rows of get_theme_siblings
MaxDiffRows == 1    \* rows of the difficulty lookup
MaxUnitWordId == 2  \* word ids in the rows given to a builder
MaxSubThemeId == 2  \* sub_theme ids are 1..MaxSubThemeId
MaxMemberRows == 2  \* word rows (memberships) given to a builder
MaxEdgeRows == 1    \* word_relationship rows given to a builder
MaxStarWordId == 2  \* word ids in the rows of a word focus, the focal is 1
MaxStarRels == 1    \* relationship rows of a word focus
MaxSibHead == 1     \* theme sibling rows with ids in 1..MaxStarWordId
MaxSibRun == 21     \* theme sibling rows with further ids, after those
MaxUnits == 2       \* units given to the galaxy view
MaxBridgeRows == 1  \* cross-unit connection rows
MaxStoredEdges == 2 \* stored edges at the focal word
MaxStoredThemeRows == 2  \* stored sibling rows over the words 2 and 3
MaxDiffMates == 21  \* stored words of a difficulty next to the focal word's
MaxThemeMates == 51 \* stored sibling rows of a crowded sub-theme
MaxLoads == 3       \* navigation requests on the explore page

WordIds == 1..MaxWordId

-----------------------------------------------------------------------------
(* Optional values and JavaScript numbers *)

Null == <<>>
Some(x) == <<x>>
Val(o) == o[1]

\* a JS number that is either an integer or NaN
NaN == [nan |-> TRUE, n |-> 0]
Num(k) == [nan |-> FALSE, n |-> k]

\* a string is the sequence of its characters
Digits == <<"0", "1", "2", "3", "4", "5", "6", "7", "8", "9">>
IsDigit(c) == \E i \in 1..10 : Digits[i] = c
DigitVal(c) == (CHOOSE i \in 1..10 : Digits[i] = c) - 1

RECURSIVE TrimStart(_)
TrimStart(s) ==
    IF s # <<>> /\ Head(s) = " " THEN TrimStart(Tail(s)) ELSE s

\* value of the longest prefix of decimal digits of s, Null when there is none
RECURSIVE DigitPrefix(_, _, _)
DigitPrefix(s, acc, seen) ==
    IF s # <<>> /\ IsDigit(Head(s))
    THEN DigitPrefix(Tail(s), 10 * acc + DigitVal(Head(s)), TRUE)
    ELSE IF seen THEN Some(acc) ELSE Null

\* parseInt(s) with no radix, on strings without a hexadecimal prefix
ParseInt(s) ==
    LET t == TrimStart(s)
        neg == t # <<>> /\ Head(t) = "-"
        signed == t # <<>> /\ Head(t) \in {"-", "+"}
        d == DigitPrefix(IF signed THEN Tail(t) ELSE t, 0, FALSE)
    IN  IF d = Null THEN NaN
        ELSE Num(IF neg THEN 0 - Val(d) ELSE Val(d))

\* !x for x a string or null
Falsy(p) == p = Null \/ Val(p) = <<>>

DefaultLimit == <<"1", "0">>
\* parseInt(get("limit") || "10")
ParseLimit(p) == ParseInt(IF Falsy(p) THEN DefaultLimit ELSE Val(p))

\* variant: the slice is forgotten
SliceTo_all(s, end) == s

\* Array.prototype.slice(0, end)
SliceTo(s, end) ==
    LET len == Len(s)
        rel == IF end.nan THEN 0 ELSE end.n
        fin == IF rel < 0 THEN (IF len + rel < 0 THEN 0 ELSE len + rel)
               ELSE (IF rel < len THEN rel ELSE len)
    IN  SubSeq(s, 1, fin)

-----------------------------------------------------------------------------
(* Scores.  A score is an IEEE-754 double that is a sum of weights given    *)
(* in tenths; it is kept as the exact sum in tenths and its distance, in    *)
(* units in the last place, from the double nearest to that decimal.        *)

Zero == [tenths |-> 0, ulps |-> 0]

W_SAME_ROOT == 9
W_SAME_THEME == 7
W_DIFFICULTY == 5

\* <<t, e, w, e2>>: adding w/10 to the double (t/10 + e ulps) gives the
\* double ((t+w)/10 + e2 ulps); every other addition keeps the distance.
\* The table covers the sums a candidate can accumulate in signal order from
\* 0.9 at most once, up to four edge weights out of 0.8 and 0.6 in descending
\* order, up to four times 0.7, and 0.5 at most once.
RoundingCases ==
    { <<6, 0, 7, -1>>, <<9, 0, 8, 1>>, <<12, 0, 6, -1>>, <<14, 0, 7, -1>>,
      <<16, 0, 8, 1>>, <<17, 1, 5, 0>>, <<17, 1, 8, 0>>, <<18, -1, 5, 0>>,
      <<18, -1, 6, 0>>, <<18, -1, 7, 0>>, <<19, 0, 7, -1>>, <<20, -1, 5, 0>>,
      <<21, -1, 7, 0>>, <<22, 0, 6, 1>>, <<22, 0, 7, 1>>, <<23, 1, 7, 0>>,
      <<24, 0, 7, -1>>, <<24, 1, 8, 0>>, <<26, -1, 7, 0>>, <<27, 0, 6, 1>>,
      <<27, 0, 7, 1>>, <<28, 1, 7, 0>>, <<30, 1, 7, 0>>, <<31, -1, 7, 0>>,
      <<31, 1, 7, 2>>, <<32, 0, 7, 1>>, <<33, 1, 7, 0>>, <<35, 1, 5, 0>>,
      <<35, 1, 7, 0>>, <<38, 2, 5, 1>>, <<38, 2, 7, 1>>, <<39, 1, 5, 0>>,
      <<44, 0, 7, 1>>, <<49, 0, 7, 1>>, <<54, 0, 7, 1>> }

\* variant: the best single signal is kept instead of the sum
FAdd_max(s, w) ==
    IF s.tenths >= w THEN s ELSE [tenths |-> w, ulps |-> 0]

\* existing.score += score
FAdd(s, w) ==
    LET hit == {c \in RoundingCases :
                    c[1] = s.tenths /\ c[2] = s.ulps /\ c[3] = w}
    IN  [tenths |-> s.tenths + w,
         ulps |-> IF hit = {} THEN s.ulps ELSE (CHOOSE c \in hit : TRUE)[4]]

\* sign of a - b for two scores
ScoreCmp(a, b) ==
    IF a.tenths # b.tenths THEN (IF a.tenths < b.tenths THEN -1 ELSE 1)
    ELSE IF a.ulps # b.ulps THEN (IF a.ulps < b.ulps THEN -1 ELSE 1)
    ELSE 0

-----------------------------------------------------------------------------
(* The requests and the rows the store can return *)

\* query strings of the request: wordId absent, "", "a", "1"
WordIdParams == {Null, Some(<<>>), Some(<<"a">>), Some(<<"1">>)}
\* limit absent, "0", "1", "-1"
LimitParams == {Null, Some(<<"0">>), Some(<<"1">>), Some(<<"-", "1">>)}

SeqsUpTo(S, n) == UNION {[1..k -> S] : k \in 0..n}
Distinct(s) == \A i, j \in 1..Len(s) : i # j => s[i] # s[j]
Range(s) == {s[i] : i \in 1..Len(s)}

\* select("id") with a filter: the ids of the rows whose id is in keep
RECURSIVE IdsOfRows(_, _)
IdsOfRows(rows, keep) ==
    IF rows = <<>> THEN <<>>
    ELSE (IF Head(rows).id \in keep THEN <<Head(rows).id>> ELSE <<>>)
             \o IdsOfRows(Tail(rows), keep)

\* words: id is the primary key, root_id and difficulty_score are nullable
RootIds == {Null, Some(7)}
Difficulties == {Null, Some(3)}
WordRows(id) ==
    {[id |-> id, root_id |-> r, difficulty_score |-> d] :
        r \in RootIds, d \in Difficulties}

\* from("words").select("id").eq("root_id", ..).neq("id", targetId)
RootSiblingRows(tid) ==
    IF store # Null
    THEN {IdsOfRows(Val(store).words,
                    {w.id : w \in {r \in Range(Val(store).words) :
                        r.root_id = Val(targetWord).root_id /\ r.id # tid}})}
    ELSE {s \in SeqsUpTo(WordIds \ {tid}, MaxRootRows) : Distinct(s)}

\* get_word_connections: the other endpoint of every edge at the target (the
\* target itself for an edge from the target to itself, which the table
\* allows), order by weight desc
RelKinds == {<<"opposite", 8>>, <<"semantic_similar", 6>>}
RelRow == {[word_id |-> i, relationship_type |-> k[1], weight |-> k[2]] :
              i \in WordIds, k \in RelKinds}
ConnectionRows(tid) ==
    IF store # Null THEN {Val(store).edges} ELSE
    {s \in SeqsUpTo(RelRow, MaxRelRows) :
        /\ \A i \in 1..Len(s) - 1 : s[i].weight >= s[i + 1].weight
        /\ \A i, j \in 1..Len(s) :
              (i # j /\ s[i].word_id = tid /\ s[j].word_id = tid)
                  => s[i].relationship_type # s[j].relationship_type}

\* get_theme_siblings: one row per (word, shared sub-theme), never the
\* target, limit 50
THEME_LIMIT == 50

\* variant: the function has no limit
ThemeSiblingRows_noLimit(tid) ==
    IF store # Null THEN {Val(store).themes}
    ELSE SeqsUpTo(WordIds \ {tid}, MaxSibRows)

ThemeSiblingRows(tid) ==
    IF store # Null
    THEN {SliceTo(Val(store).themes, Num(THEME_LIMIT))}
    ELSE SeqsUpTo(WordIds \ {tid}, MaxSibRows)

\* from("words").select("id").gte(..).lte(..).neq("id", targetId).limit(20)
DIFF_LIMIT == 20

\* variant: the lookup has no limit
DifficultyRows_noLimit(tid) ==
    LET d == Val(Val(targetWord).difficulty_score)
    IN  IF store # Null
        THEN {IdsOfRows(Val(store).words,
                  {w.id : w \in {r \in Range(Val(store).words) :
                      /\ r.difficulty_score # Null
                      /\ Val(r.difficulty_score) >= d - 1
                      /\ Val(r.difficulty_score) <= d + 1
                      /\ r.id # tid}})}
        ELSE {s \in SeqsUpTo(WordIds \ {tid}, MaxDiffRows) : Distinct(s)}

DifficultyRows(tid) ==
    IF store # Null
    THEN LET d == Val(Val(targetWord).difficulty_score)
         IN  {SliceTo(IdsOfRows(Val(store).words,
                          {w.id : w \in {r \in Range(Val(store).words) :
                              /\ r.difficulty_score # Null
                              /\ Val(r.difficulty_score) >= d - 1
                              /\ Val(r.difficulty_score) <= d + 1
                              /\ r.id # tid}}),
                      Num(DIFF_LIMIT))}
    ELSE {s \in SeqsUpTo(WordIds \ {tid}, MaxDiffRows) :
             Distinct(s) /\ Len(s) <= DIFF_LIMIT}

-----------------------------------------------------------------------------
(* GET /api/recommendations *)

Index(sc, id) ==
    IF \E i \in 1..Len(sc) : sc[i].id = id
    THEN CHOOSE i \in 1..Len(sc) : sc[i].id = id
    ELSE 0

\* variant: the guard of addScore is missing
IsTarget_never(id, tid) == FALSE

\* id === targetId
IsTarget(id, tid) == ~tid.nan /\ id = tid.n

\* variant: a reason is recorded only when the entry is created
addScore_firstReason(sc, tid, id, score, reason) ==
    IF IsTarget(id, tid) THEN sc
    ELSE LET i == Index(sc, id)
         IN  IF i = 0
             THEN Append(sc, [id |-> id, score |-> FAdd(Zero, score),
                              reasons |-> <<reason>>])
             ELSE [sc EXCEPT ![i].score = FAdd(@, score)]

addScore(sc, tid, id, score, reason) ==
    IF IsTarget(id, tid) THEN sc
    ELSE LET i == Index(sc, id)
             existing == IF i = 0 THEN [id |-> id, score |-> Zero,
                                        reasons |-> <<>>]
                         ELSE sc[i]
             updated == [existing EXCEPT
                            !.score = FAdd(existing.score, score),
                            !.reasons = Append(existing.reasons, reason)]
         IN  IF i = 0 THEN Append(sc, updated)
             ELSE [sc EXCEPT ![i] = updated]

\* for (const w of rows) addScore(w.id, weight, reason): the rows in order,
\* the scores after the first half of them being computed before the rest
\* is added
RECURSIVE AddIds(_, _, _, _, _)
AddIds(sc, tid, rows, weight, reason) ==
    IF rows = <<>> THEN sc
    ELSE IF Len(rows) = 1 THEN addScore(sc, tid, rows[1], weight, reason)
    ELSE LET h == Len(rows) \div 2
             first == AddIds(sc, tid, SubSeq(rows, 1, h), weight, reason)
         IN  IF Len(first) >= 0
             THEN AddIds(first, tid, SubSeq(rows, h + 1, Len(rows)), weight,
                         reason)
             ELSE first

\* variant: every edge counts with the weight 0.8 of the signal table
RECURSIVE AddRels_tableWeight(_, _, _)
AddRels_tableWeight(sc, tid, rows) ==
    IF rows = <<>> THEN sc
    ELSE AddRels_tableWeight(addScore(sc, tid, Head(rows).word_id, 8,
                                      Head(rows).relationship_type),
                             tid, Tail(rows))

\* for (const r of rels) addScore(r.word_id, r.weight, r.relationship_type)
RECURSIVE AddRels(_, _, _)
AddRels(sc, tid, rows) ==
    IF rows = <<>> THEN sc
    ELSE AddRels(addScore(sc, tid, Head(rows).word_id, Head(rows).weight,
                          Head(rows).relationship_type), tid, Tail(rows))

\* the comparator of the sort: (a, b) => b[1].score - a[1].score
Compare(a, b) == ScoreCmp(b.score, a.score)

\* Array.prototype.sort is stable: x goes behind every element that does
\* not compare greater than it
RECURSIVE InsertSorted(_, _)
InsertSorted(s, x) ==
    IF s = <<>> THEN <<x>>
    ELSE IF Compare(Head(s), x) <= 0 THEN <<Head(s)>> \o InsertSorted(Tail(s), x)
    ELSE <<x>> \o s

RECURSIVE Sort(_)
Sort(s) ==
    IF s = <<>> THEN <<>>
    ELSE InsertSorted(Sort(SubSeq(s, 1, Len(s) - 1)), s[Len(s)])

\* [...scores.entries()].sort(..).slice(0, limit)
Rank(sc, lim) == SliceTo(Sort(sc), lim)

\* variant: the filter is missing
HasWord_always(id, found) == TRUE

\* wordsById.get(id) is a row
HasWord(id, found) == id \in found

\* ranked.map(..).filter((r) => r.word)
RECURSIVE Resolved(_, _)
Resolved(rk, found) ==
    IF rk = <<>> THEN <<>>
    ELSE (IF HasWord(Head(rk).id, found)
          THEN <<[word |-> Head(rk).id, score |-> Head(rk).score,
                  reasons |-> Head(rk).reasons]>>
          ELSE <<>>) \o Resolved(Tail(rk), found)

Ids(s) == {s[i].id : i \in 1..Len(s)}

\* variant: the not-found return is missing
NotFound_never(tw) == FALSE

\* !targetWord
NotFound(tw) == tw = Null

\* lines 14-19: read the parameters, reject a missing wordId
Validate ==
    /\ pc = "start"
    /\ \E w \in WordIdParams, l \in LimitParams :
          /\ wordIdParam' = w
          /\ limitParam' = l
          /\ limit' = ParseLimit(l)
          /\ IF Falsy(w)
             THEN /\ status' = 400
                  /\ pc' = "done"
             ELSE /\ status' = 0
                  /\ pc' = "fetchTarget"
    /\ UNCHANGED <<targetId, targetWord, rootSiblings, rels, siblings,
                   diffWords, scores, ranked, words, queries,
                   recommendations>>
    /\ UNCHANGED graphVars

\* lines 21-33: fetch the target word, 404 when there is none
FetchTarget ==
    /\ pc = "fetchTarget"
    /\ LET tid == ParseInt(Val(wordIdParam)) IN
          /\ targetId' = tid
          /\ queries' = Append(queries, "words.single")
          /\ \E tw \in {Null} \cup
                  (IF tid.nan \/ tid.n \notin WordIds THEN {}
                   ELSE {Some(r) : r \in WordRows(tid.n)}) :
                /\ targetWord' = tw
                /\ IF NotFound(tw)
                   THEN /\ status' = 404
                        /\ pc' = "done"
                   ELSE /\ status' = status
                        /\ pc' = "sameRoot"
    /\ UNCHANGED <<wordIdParam, limitParam, limit, rootSiblings, rels,
                   siblings, diffWords, scores, ranked, words,
                   recommendations>>
    /\ UNCHANGED graphVars

\* lines 46-57: signal 1, same root
SameRoot ==
    /\ pc = "sameRoot"
    /\ IF Val(targetWord).root_id # Null
       THEN \E rows \in RootSiblingRows(targetId.n) :
               /\ rootSiblings' = rows
               /\ queries' = Append(queries, "words.root")
               /\ scores' = AddIds(scores, targetId, rows, W_SAME_ROOT,
                                   "same_root")
       ELSE UNCHANGED <<rootSiblings, queries, scores>>
    /\ pc' = "relationships"
    /\ UNCHANGED <<wordIdParam, limitParam, targetId, limit, targetWord,
                   rels, siblings, diffWords, ranked, words, status,
                   recommendations>>
    /\ UNCHANGED graphVars

\* lines 59-65: signal 2, explicit relationships
Relationships ==
    /\ pc = "relationships"
    /\ \E rows \in ConnectionRows(targetId.n) :
          /\ rels' = rows
          /\ scores' = AddRels(scores, targetId, rows)
    /\ queries' = Append(queries, "get_word_connections")
    /\ pc' = "sameTheme"
    /\ UNCHANGED <<wordIdParam, limitParam, targetId, limit, targetWord,
                   rootSiblings, siblings, diffWords, ranked, words, status,
                   recommendations>>
    /\ UNCHANGED graphVars

\* lines 67-73: signal 3, same theme
SameTheme ==
    /\ pc = "sameTheme"
    /\ \E rows \in ThemeSiblingRows(targetId.n) :
          /\ siblings' = rows
          /\ scores' = AddIds(scores, targetId, rows, W_SAME_THEME,
                              "same_theme")
    /\ queries' = Append(queries, "get_theme_siblings")
    /\ pc' = "difficulty"
    /\ UNCHANGED <<wordIdParam, limitParam, targetId, limit, targetWord,
                   rootSiblings, rels, diffWords, ranked, words, status,
                   recommendations>>
    /\ UNCHANGED graphVars

\* lines 75-88: signal 4, similar difficulty
Difficulty ==
    /\ pc = "difficulty"
    /\ IF Val(targetWord).difficulty_score # Null
       THEN \E rows \in DifficultyRows(targetId.n) :
               /\ diffWords' = rows
               /\ queries' = Append(queries, "words.difficulty")
               /\ scores' = AddIds(scores, targetId, rows, W_DIFFICULTY,
                                   "similar_difficulty")
       ELSE UNCHANGED <<diffWords, queries, scores>>
    /\ pc' = "rank"
    /\ UNCHANGED <<wordIdParam, limitParam, targetId, limit, targetWord,
                   rootSiblings, rels, siblings, ranked, words, status,
                   recommendations>>
    /\ UNCHANGED graphVars

\* lines 90-97: sort, take the top N, answer at once when nothing is left
RankStep ==
    /\ pc = "rank"
    /\ ranked' = Rank(scores, limit)
    /\ IF ranked' = <<>>
       THEN /\ status' = 200
            /\ pc' = "done"
       ELSE /\ status' = status
            /\ pc' = "resolve"
    /\ UNCHANGED <<wordIdParam, limitParam, targetId, limit, targetWord,
                   rootSiblings, rels, siblings, diffWords, scores, words,
                   queries, recommendations>>
    /\ UNCHANGED graphVars

\* lines 99-118: batch lookup of the ranked ids, drop the unresolved ones
Resolve ==
    /\ pc = "resolve"
    /\ \E found \in SUBSET Ids(ranked) :
          /\ words' = found
          /\ recommendations' = Resolved(ranked, found)
    /\ queries' = Append(queries, "words.in")
    /\ status' = 200
    /\ pc' = "done"
    /\ UNCHANGED <<wordIdParam, limitParam, targetId, limit, targetWord,
                   rootSiblings, rels, siblings, diffWords, scores, ranked>>
    /\ UNCHANGED graphVars

\* export async function GET(request)
Next ==
    \/ Validate
    \/ FetchTarget
    \/ SameRoot
    \/ Relationships
    \/ SameTheme
    \/ Difficulty
    \/ RankStep
    \/ Resolve

-----------------------------------------------------------------------------
(* lib/graph/transform: the Cluster (unit detail) view.  Nodes and links    *)
(* carry the fields that identify and type them; labels, colours and the    *)
(* animation fields are left out.  Widths are in tenths.                    *)

SubThemeIds == 1..MaxSubThemeId
UnitWordIds == 1..MaxUnitWordId
UnitCodes == {"A"}
Units == {[code |-> c] : c \in UnitCodes}

\* sub_themes rows of the unit: id is the primary key
SubThemeRows ==
    {s \in SeqsUpTo({[id |-> i] : i \in SubThemeIds}, MaxSubThemeId) :
        Distinct(s)}

\* the words of get_unit_graph: one row per membership, unique per
\* (word_id, sub_theme_id), in no particular order
MemberRow == {[id |-> w, sub_theme_id |-> t] : w \in UnitWordIds,
                                               t \in SubThemeIds}
MemberRows == {s \in SeqsUpTo(MemberRow, MaxMemberRows) : Distinct(s)}

\* from("word_relationships").select("*"): edges between any two words
EdgeKinds == {<<"opposite", 8>>}
EdgeRow == {[word_id_1 |-> a, word_id_2 |-> b, relationship_type |-> k[1],
             weight |-> k[2]] :
               a \in UnitWordIds, b \in UnitWordIds, k \in EdgeKinds}
\* the optional parameter: Null when it is not passed
EdgeRows == {Null} \cup {Some(s) : s \in SeqsUpTo(EdgeRow, MaxEdgeRows)}

UnitNodeId(code) == "unit-" \o code
\* variant: a sub-theme id is made like a word id
StNodeId_asWord(id) == "word-" \o ToString(id)

StNodeId(id) == "st-" \o ToString(id)
WordNodeId(id) == "word-" \o ToString(id)

Node(id, type, size, code) ==
    [id |-> id, type |-> type, size |-> size, unitCode |-> code]
Link(source, target, type, width, dashed) ==
    [source |-> source, target |-> target, type |-> type, width |-> width,
     dashed |-> dashed]

\* rel.relationship_type === "opposite" || ... === "semantic_similar"
ClusterDashed(type) == type = "opposite" \/ type = "semantic_similar"

\* body of the loop over subThemes
ClusterSubThemeStep(acc, u, st) ==
    [acc EXCEPT
        !.nodes = Append(@, Node(StNodeId(st.id), "sub_theme", 13, u.code)),
        !.links = Append(@, Link(UnitNodeId(u.code), StNodeId(st.id),
                                 "contains", 15, Null))]

\* variant: the word is pushed whether or not it was seen
ClusterIsNewWord_always(acc, wId) == TRUE

\* !wordIdSet.has(wId)
ClusterIsNewWord(acc, wId) == wId \notin acc.wordIdSet

\* variant: the link is pushed inside the if, with the node
ClusterWordStep_linkWithNode(acc, u, w) ==
    LET wId == WordNodeId(w.id) IN
    IF ClusterIsNewWord(acc, wId)
    THEN [acc EXCEPT
             !.wordIdSet = @ \cup {wId},
             !.nodes = Append(@, Node(wId, "word", 6, u.code)),
             !.links = Append(@, Link(StNodeId(w.sub_theme_id), wId,
                                      "contains", 5, Null))]
    ELSE acc

\* body of the loop over words
ClusterWordStep(acc, u, w) ==
    LET wId == WordNodeId(w.id)
        withNode ==
            IF ClusterIsNewWord(acc, wId)
            THEN [acc EXCEPT
                     !.wordIdSet = @ \cup {wId},
                     !.nodes = Append(@, Node(wId, "word", 6, u.code))]
            ELSE acc
    IN  [withNode EXCEPT
            !.links = Append(@, Link(StNodeId(w.sub_theme_id), wId,
                                     "contains", 5, Null))]

\* variant: one endpoint among the word nodes is enough
ClusterEdgeStep_either(acc, rel) ==
    LET srcId == WordNodeId(rel.word_id_1)
        tgtId == WordNodeId(rel.word_id_2)
    IN  IF srcId \in acc.wordIdSet \/ tgtId \in acc.wordIdSet
        THEN [acc EXCEPT
                 !.links = Append(@, Link(srcId, tgtId, rel.relationship_type,
                                          rel.weight * 2,
                                          Some(ClusterDashed(
                                                   rel.relationship_type))))]
        ELSE acc

\* body of the loop over relationships
ClusterEdgeStep(acc, rel) ==
    LET srcId == WordNodeId(rel.word_id_1)
        tgtId == WordNodeId(rel.word_id_2)
    IN  IF srcId \in acc.wordIdSet /\ tgtId \in acc.wordIdSet
        THEN [acc EXCEPT
                 !.links = Append(@, Link(srcId, tgtId, rel.relationship_type,
                                          rel.weight * 2,
                                          Some(ClusterDashed(
                                                   rel.relationship_type))))]
        ELSE acc

RECURSIVE ClusterSubThemes(_, _, _)
ClusterSubThemes(acc, u, sts) ==
    IF sts = <<>> THEN acc
    ELSE ClusterSubThemes(ClusterSubThemeStep(acc, u, Head(sts)), u, Tail(sts))

RECURSIVE ClusterWords(_, _, _)
ClusterWords(acc, u, ws) ==
    IF ws = <<>> THEN acc
    ELSE ClusterWords(ClusterWordStep(acc, u, Head(ws)), u, Tail(ws))

RECURSIVE ClusterEdges(_, _)
ClusterEdges(acc, rs) ==
    IF rs = <<>> THEN acc
    ELSE ClusterEdges(ClusterEdgeStep(acc, Head(rs)), Tail(rs))

buildClusterGraph(u, sts, ws, rs) ==
    LET start == [nodes |-> <<Node(UnitNodeId(u.code), "unit", 35, u.code)>>,
                  links |-> <<>>,
                  wordIdSet |-> {}]
        a1 == ClusterSubThemes(start, u, sts)
        a2 == ClusterWords(a1, u, ws)
        a3 == IF rs # Null THEN ClusterEdges(a2, Val(rs)) ELSE a2
    IN  [nodes |-> a3.nodes, links |-> a3.links]

\* the builder applied to the inputs of the state
BuildCluster ==
    /\ call = "cluster"
    /\ view = "none"
    /\ view' = "cluster"
    /\ graphData' = buildClusterGraph(unit, subThemes, unitWords,
                                      relationships)
    /\ UNCHANGED <<inputVars, exploreVars, page>>
    /\ UNCHANGED recVars

-----------------------------------------------------------------------------
(* The earlier transform module: buildUnitDetailGraph, which takes no       *)
(* relationship rows and looks a word up among the nodes pushed so far.     *)

\* !nodes.find((n) => n.id === wId)
DetailIsNewWord(nodes, wId) == ~\E i \in 1..Len(nodes) : nodes[i].id = wId

DetailSubThemeStep(acc, u, st) ==
    [nodes |-> Append(acc.nodes,
                      Node(StNodeId(st.id), "sub_theme", 15, u.code)),
     links |-> Append(acc.links, Link(UnitNodeId(u.code), StNodeId(st.id),
                                      "contains", 20, Null))]

DetailWordStep(acc, u, w) ==
    LET wId == WordNodeId(w.id) IN
    [nodes |-> IF DetailIsNewWord(acc.nodes, wId)
               THEN Append(acc.nodes, Node(wId, "word", 8, u.code))
               ELSE acc.nodes,
     links |-> Append(acc.links, Link(StNodeId(w.sub_theme_id), wId,
                                      "contains", 10, Null))]

RECURSIVE DetailSubThemes(_, _, _)
DetailSubThemes(acc, u, sts) ==
    IF sts = <<>> THEN acc
    ELSE DetailSubThemes(DetailSubThemeStep(acc, u, Head(sts)), u, Tail(sts))

RECURSIVE DetailWords(_, _, _)
DetailWords(acc, u, ws) ==
    IF ws = <<>> THEN acc
    ELSE DetailWords(DetailWordStep(acc, u, Head(ws)), u, Tail(ws))

buildUnitDetailGraph(u, sts, ws) ==
    LET start == [nodes |-> <<Node(UnitNodeId(u.code), "unit", 40, u.code)>>,
                  links |-> <<>>]
    IN  DetailWords(DetailSubThemes(start, u, sts), u, ws)

BuildUnitDetail ==
    /\ call = "unitDetail"
    /\ view = "none"
    /\ view' = "unitDetail"
    /\ graphData' = buildUnitDetailGraph(unit, subThemes, unitWords)
    /\ UNCHANGED <<inputVars, exploreVars, page>>
    /\ UNCHANGED recVars

-----------------------------------------------------------------------------
(* lib/graph/transform: the Star (word focus) view.  The width of a         *)
(* relationship link is weight * 2.5; weights are even numbers of tenths,   *)
(* so that the width is a whole number of tenths.                           *)

StarWordIds == 1..MaxStarWordId
FocalId == 1

\* relationships of WordFocusData: any word, the focal one included, with
\* any relationship type
StarRelKinds == {<<"opposite", 8>>, <<"semantic_similar", 6>>,
                 <<"same_root", 10>>}
StarRelRow == {[word_id |-> w, relationship_type |-> k[1], weight |-> k[2]] :
                 w \in StarWordIds, k \in StarRelKinds}
StarRelRows == SeqsUpTo(StarRelRow, MaxStarRels)

\* theme_siblings of WordFocusData: rows over the ids of the relationship
\* rows, followed by m rows of further words
SibRow(w) == [word_id |-> w, unit_code |-> "A"]
StarSiblingRows ==
    {h \o [i \in 1..m |-> SibRow(MaxStarWordId + i)] :
        h \in SeqsUpTo({SibRow(w) : w \in StarWordIds}, MaxSibHead),
        m \in 0..MaxSibRun}

\* WordFocusData; units: none, or the unit of the word
FocusDatas ==
    [word : {[id |-> FocalId]}, units : {<<>>, <<[code |-> "B"]>>},
     relationships : StarRelRows, theme_siblings : StarSiblingRows]

\* focusData.units?.[0]?.code || "A"
StarPrimaryCode(fd) == IF fd.units # <<>> THEN fd.units[1].code ELSE "A"

\* rel.relationship_type === "opposite" || ... === "semantic_similar"
StarDashed(type) == type = "opposite" \/ type = "semantic_similar"

\* body of the loop over focusData.relationships
StarRelStep(acc, centralId, rel) ==
    LET wId == WordNodeId(rel.word_id)
        withNode ==
            IF wId \notin acc.nodeIds
            THEN [acc EXCEPT
                     !.nodeIds = @ \cup {wId},
                     !.nodes = Append(@, Node(wId, "word", 12, Null))]
            ELSE acc
    IN  [withNode EXCEPT
            !.links = Append(@, Link(centralId, wId, rel.relationship_type,
                                     (rel.weight * 25) \div 10,
                                     Some(StarDashed(rel.relationship_type))))]

\* body of the loop over siblings
StarSiblingStep(acc, centralId, sib) ==
    LET wId == WordNodeId(sib.word_id)
        withNode ==
            IF wId \notin acc.nodeIds
            THEN [acc EXCEPT
                     !.nodeIds = @ \cup {wId},
                     !.nodes = Append(@, Node(wId, "word", 7, sib.unit_code))]
            ELSE acc
    IN  [withNode EXCEPT
            !.links = Append(@, Link(centralId, wId, "same_theme", 8, Null))]

RECURSIVE StarRels(_, _, _)
StarRels(acc, centralId, rs) ==
    IF rs = <<>> THEN acc
    ELSE StarRels(StarRelStep(acc, centralId, Head(rs)), centralId, Tail(rs))

RECURSIVE StarSiblings(_, _, _)
StarSiblings(acc, centralId, sibs) ==
    IF sibs = <<>> THEN acc
    ELSE StarSiblings(StarSiblingStep(acc, centralId, Head(sibs)), centralId,
                      Tail(sibs))

SIBLING_CAP == 20

\* variant: every sibling row is rendered
CappedSiblings_all(sibs) == sibs

\* focusData.theme_siblings.slice(0, 20)
CappedSiblings(sibs) == SliceTo(sibs, Num(SIBLING_CAP))

\* variant: no node for the focal word
buildStarGraph_noCentre(fd) ==
    LET centralId == WordNodeId(fd.word.id)
        start == [nodes |-> <<>>, links |-> <<>>, nodeIds |-> {}]
        a1 == StarRels(start, centralId, fd.relationships)
        a2 == StarSiblings(a1, centralId, CappedSiblings(fd.theme_siblings))
    IN  [nodes |-> a2.nodes, links |-> a2.links]

buildStarGraph(fd) ==
    LET centralId == WordNodeId(fd.word.id)
        start == [nodes |-> <<Node(centralId, "word", 25, StarPrimaryCode(fd))>>,
                  links |-> <<>>,
                  nodeIds |-> {centralId}]
        a1 == StarRels(start, centralId, fd.relationships)
        a2 == StarSiblings(a1, centralId, CappedSiblings(fd.theme_siblings))
    IN  [nodes |-> a2.nodes, links |-> a2.links]

\* variant: the first 20 siblings are taken out of the input with splice
BuildStar_splice ==
    /\ call = "star"
    /\ view = "none"
    /\ view' = "star"
    /\ graphData' = buildStarGraph(focusData)
    /\ focusData' =
          [focusData EXCEPT
              !.theme_siblings =
                  SubSeq(@, Len(CappedSiblings(@)) + 1, Len(@))]
    /\ UNCHANGED <<store, call, unit, subThemes, unitWords, relationships,
                   wordArgs, units, wordCounts, crossUnitLinks, page>>
    /\ UNCHANGED exploreVars
    /\ UNCHANGED recVars

\* loadStar: the builder applied to the focus data of the state
BuildStar ==
    /\ call = "star"
    /\ view = "none"
    /\ view' = "star"
    /\ graphData' = buildStarGraph(focusData)
    /\ UNCHANGED <<inputVars, exploreVars, page>>
    /\ UNCHANGED recVars

-----------------------------------------------------------------------------
(* The word page (/word/[id]): it builds its graph with the                 *)
(* buildWordFocusGraph of lib/graph/transform, which passes no theme        *)
(* siblings to buildStarGraph, and lists the theme siblings itself.         *)

\* connections of the word page, made of the rows of get_word_connections
Connection(r) == [word |-> [id |-> r.word_id],
                  relationship_type |-> r.relationship_type,
                  weight |-> r.weight]
\* themeSiblings of the word page, made of the rows of get_theme_siblings:
\* words other than the focal one
PageSiblings == {[i \in 1..m |-> [id |-> FocalId + i]] : m \in 0..MaxSibRun}

\* the state of the word page; unitCode is [...unitCodes][0] || "A"
WordArgs ==
    [centralWord : {[id |-> FocalId]},
     connections : {[i \in 1..Len(rs) |-> Connection(rs[i])] :
                       rs \in StarRelRows},
     unitCode : {"A", "B"}, themeSiblings : PageSiblings]

\* connections.map((c) => ({word_id: c.word.id, ...}))
RelsOfConnections(cs) ==
    [i \in 1..Len(cs) |-> [word_id |-> cs[i].word.id,
                           relationship_type |-> cs[i].relationship_type,
                           weight |-> cs[i].weight]]

buildWordFocusGraph(centralWord, connections, unitCode) ==
    buildStarGraph([word |-> [id |-> centralWord.id],
                    units |-> <<[code |-> unitCode]>>,
                    relationships |-> RelsOfConnections(connections),
                    theme_siblings |-> <<>>])

\* variant: the count of all the siblings is shown
PageMore_total(sibs) ==
    IF Len(sibs) > SIBLING_CAP THEN Some(Len(sibs)) ELSE Null

\* themeSiblings.length > 20 && <span>+{themeSiblings.length - 20} more</span>
PageMore(sibs) ==
    IF Len(sibs) > SIBLING_CAP THEN Some(Len(sibs) - SIBLING_CAP) ELSE Null

\* themeSiblings.slice(0, 20).map((s) => <WordBadge key={s.id} .../>)
PageBadges(sibs) ==
    LET shown == SliceTo(sibs, Num(SIBLING_CAP))
    IN  [i \in 1..Len(shown) |-> shown[i].id]

\* WordPage: loadWord for a word that exists, and the section rendered
WordPage ==
    /\ call = "wordPage"
    /\ view = "none"
    /\ view' = "wordFocus"
    /\ graphData' = buildWordFocusGraph(wordArgs.centralWord,
                                        wordArgs.connections,
                                        wordArgs.unitCode)
    /\ page' = [badges |-> PageBadges(wordArgs.themeSiblings),
                more |-> PageMore(wordArgs.themeSiblings)]
    /\ UNCHANGED <<inputVars, exploreVars>>
    /\ UNCHANGED recVars

\* the earlier transform module: its own buildWordFocusGraph
OldDashed(type) == type = "semantic_similar"

OldFocusStep(acc, centralWord, conn) ==
    LET wId == WordNodeId(conn.word.id) IN
    [nodes |-> IF DetailIsNewWord(acc.nodes, wId)
               THEN Append(acc.nodes, Node(wId, "word", 12, Null))
               ELSE acc.nodes,
     links |-> Append(acc.links,
                      Link(WordNodeId(centralWord.id), wId,
                           conn.relationship_type, conn.weight * 3,
                           Some(OldDashed(conn.relationship_type))))]

RECURSIVE OldFocusSteps(_, _, _)
OldFocusSteps(acc, centralWord, cs) ==
    IF cs = <<>> THEN acc
    ELSE OldFocusSteps(OldFocusStep(acc, centralWord, Head(cs)), centralWord,
                       Tail(cs))

oldBuildWordFocusGraph(centralWord, connections, unitCode) ==
    OldFocusSteps([nodes |-> <<Node(WordNodeId(centralWord.id), "word", 25,
                                    unitCode)>>,
                   links |-> <<>>],
                  centralWord, connections)

BuildOldWordFocus ==
    /\ call = "oldWordFocus"
    /\ view = "none"
    /\ view' = "oldWordFocus"
    /\ graphData' = oldBuildWordFocusGraph(wordArgs.centralWord,
                                           wordArgs.connections,
                                           wordArgs.unitCode)
    /\ UNCHANGED <<inputVars, exploreVars, page>>
    /\ UNCHANGED recVars

-----------------------------------------------------------------------------
(* lib/graph/transform: the Galaxy (overview) view.  The size of a unit     *)
(* node is a fraction, kept as numerator and denominator; the width of a    *)
(* link is in tenths.                                                       *)

GalaxyCodes == {"A", "B"}
\* units: code is unique
UnitSeqs ==
    {s \in SeqsUpTo({[code |-> c] : c \in GalaxyCodes}, MaxUnits) :
        Distinct(s)}

\* wordCounts: a count for some of the codes
WordCountMaps ==
    UNION {[D -> {0, 1, 64, 200, 300}] : D \in SUBSET GalaxyCodes}

\* rows of get_cross_unit_connections: two unit codes and a count
BridgeRow == {[unit_code_1 |-> a, unit_code_2 |-> b, shared_word_count |-> n] :
                a \in GalaxyCodes, b \in GalaxyCodes, n \in {1, 10, 40}}
BridgeRows == SeqsUpTo(BridgeRow, MaxBridgeRows)

Min(a, b) == IF a < b THEN a ELSE b
Max(a, b) == IF a > b THEN a ELSE b

\* wordCounts[u.code] || 0
CountOf(counts, code) == IF code \in DOMAIN counts THEN counts[code] ELSE 0

\* variant: the upper limit is forgotten
GalaxySize_noMax(count) == [num |-> Max(240, 240 + count), den |-> 8]

\* Math.max(30, Math.min(55, 30 + (count / 8)))
GalaxySize(count) == [num |-> Max(240, Min(440, 240 + count)), den |-> 8]

\* units.map((u) => ...)
GalaxyNode(counts, u) ==
    Node(UnitNodeId(u.code), "unit", GalaxySize(CountOf(counts, u.code)),
         u.code)

\* variant: the raw codes are the endpoints
GalaxyLink_rawCodes(conn) ==
    [source |-> conn.unit_code_1, target |-> conn.unit_code_2,
     type |-> "cross_unit",
     width |-> Max(5, Min(30, conn.shared_word_count)),
     dashed |-> Some(TRUE),
     sharedWordCount |-> conn.shared_word_count]

\* variant: the width is a tenth of the count, without limits
GalaxyLink_noClamp(conn) ==
    [source |-> UnitNodeId(conn.unit_code_1),
     target |-> UnitNodeId(conn.unit_code_2),
     type |-> "cross_unit",
     width |-> conn.shared_word_count,
     dashed |-> Some(TRUE),
     sharedWordCount |-> conn.shared_word_count]

\* crossUnitLinks.map((conn) => ...)
GalaxyLink(conn) ==
    [source |-> UnitNodeId(conn.unit_code_1),
     target |-> UnitNodeId(conn.unit_code_2),
     type |-> "cross_unit",
     width |-> Max(5, Min(30, conn.shared_word_count)),
     dashed |-> Some(TRUE),
     sharedWordCount |-> conn.shared_word_count]

buildGalaxyGraph(us, counts, conns) ==
    [nodes |-> [i \in 1..Len(us) |-> GalaxyNode(counts, us[i])],
     links |-> [i \in 1..Len(conns) |-> GalaxyLink(conns[i])]]

\* loadGalaxy: the builder applied to the rows of the state
BuildGalaxy ==
    /\ call = "galaxy"
    /\ view = "none"
    /\ view' = "galaxy"
    /\ graphData' = buildGalaxyGraph(units, wordCounts, crossUnitLinks)
    /\ UNCHANGED <<inputVars, exploreVars, page>>
    /\ UNCHANGED recVars

\* the earlier transform module: buildUnitOverviewGraph
\* Math.max(20, Math.min(50, (wordThemeCounts[u.code] || 0) / 2))
OverviewSize(count) == [num |-> Max(40, Min(100, count)), den |-> 2]

buildUnitOverviewGraph(us, counts) ==
    [nodes |-> [i \in 1..Len(us) |->
                   Node(UnitNodeId(us[i].code), "unit",
                        OverviewSize(CountOf(counts, us[i].code)),
                        us[i].code)],
     links |-> <<>>]

BuildUnitOverview ==
    /\ call = "unitOverview"
    /\ view = "none"
    /\ view' = "unitOverview"
    /\ graphData' = buildUnitOverviewGraph(units, wordCounts)
    /\ UNCHANGED <<inputVars, exploreVars, page>>
    /\ UNCHANGED recVars

InitRec ==
    /\ pc = "start"
    /\ wordIdParam = Null
    /\ limitParam = Null
    /\ targetId = NaN
    /\ limit = NaN
    /\ targetWord = Null
    /\ rootSiblings = <<>>
    /\ rels = <<>>
    /\ siblings = <<>>
    /\ diffWords = <<>>
    /\ scores = <<>>
    /\ ranked = <<>>
    /\ words = {}
    /\ queries = <<>>
    /\ status = 0
    /\ recommendations = <<>>

\* the values of the inputs a call does not take
NoFocus == [word |-> [id |-> FocalId], units |-> <<>>, relationships |-> <<>>,
            theme_siblings |-> <<>>]
NoWordArgs == [centralWord |-> [id |-> FocalId], connections |-> <<>>,
               unitCode |-> "A", themeSiblings |-> <<>>]
NoClusterInput ==
    /\ unit = [code |-> "A"]
    /\ subThemes = <<>>
    /\ unitWords = <<>>
    /\ relationships = Null
NoStarInput == focusData = NoFocus /\ wordArgs = NoWordArgs
NoGalaxyInput == units = <<>> /\ wordCounts = <<>> /\ crossUnitLinks = <<>>

\* a breadcrumb item; "" and 0 stand for an absent unitCode and wordId
Crumb(level, code, word) ==
    [level |-> level, unitCode |-> code, wordId |-> word]
\* the useState values of the explore page, no load in flight
NoExplore ==
    /\ loading = TRUE
    /\ zoomLevel = 1
    /\ activeUnit = Null
    /\ breadcrumb = <<Crumb(1, "", 0)>>
    /\ pending = {}
    /\ lastNav = Null

InitGraph ==
    /\ NoExplore
    /\ store = Null
    /\ call = "none"
    /\ view = "none"
    /\ unit = [code |-> "A"]
    /\ subThemes = <<>>
    /\ unitWords = <<>>
    /\ relationships = <<>>
    /\ NoStarInput
    /\ NoGalaxyInput
    /\ page = [badges |-> <<>>, more |-> Null]
    /\ graphData = [nodes |-> <<>>, links |-> <<>>]

Init == InitRec /\ InitGraph

Spec == Init /\ [][Next]_vars

\* the builders, applied once to inputs drawn from the bounded sets
NotBuilt ==
    /\ InitRec
    /\ NoExplore
    /\ store = Null
    /\ view = "none"
    /\ page = [badges |-> <<>>, more |-> Null]
    /\ graphData = [nodes |-> <<>>, links |-> <<>>]

InitBuilders ==
    /\ NotBuilt
    /\ unit \in Units
    /\ subThemes \in SubThemeRows
    /\ unitWords \in MemberRows
    /\ \/ call = "cluster" /\ relationships \in EdgeRows
       \/ call = "unitDetail" /\ relationships = Null
    /\ NoStarInput
    /\ NoGalaxyInput

NextGraph ==
    \/ BuildCluster
    \/ BuildUnitDetail

SpecGraph == InitBuilders /\ [][NextGraph]_vars

\* the star view, the word page and the earlier word focus builder
InitStar ==
    /\ NotBuilt
    /\ \/ call = "star" /\ focusData \in FocusDatas /\ wordArgs = NoWordArgs
       \/ call = "wordPage" /\ focusData = NoFocus /\ wordArgs \in WordArgs
       \/ /\ call = "oldWordFocus"
          /\ focusData = NoFocus
          /\ wordArgs \in {a \in WordArgs : a.themeSiblings = <<>>}
    /\ NoClusterInput
    /\ NoGalaxyInput

NextStar ==
    \/ BuildStar
    \/ WordPage
    \/ BuildOldWordFocus

SpecStar == InitStar /\ [][NextStar]_vars

\* the galaxy view and the earlier unit overview builder
InitGalaxy ==
    /\ NotBuilt
    /\ units \in UnitSeqs
    /\ wordCounts \in WordCountMaps
    /\ \/ call = "galaxy" /\ crossUnitLinks \in BridgeRows
       \/ call = "unitOverview" /\ crossUnitLinks = <<>>
    /\ NoClusterInput
    /\ NoStarInput

NextGalaxy ==
    \/ BuildGalaxy
    \/ BuildUnitOverview

SpecGalaxy == InitGalaxy /\ [][NextGalaxy]_vars

\* every builder
InitViews == InitBuilders \/ InitStar \/ InitGalaxy

NextViews ==
    \/ BuildCluster
    \/ BuildUnitDetail
    \/ BuildStar
    \/ WordPage
    \/ BuildOldWordFocus
    \/ BuildGalaxy
    \/ BuildUnitOverview

SpecViews == InitViews /\ [][NextViews]_vars

\* the graph the builder of the view returns for the inputs of the state
BuiltGraph ==
    CASE view = "cluster" ->
            buildClusterGraph(unit, subThemes, unitWords, relationships)
      [] view = "unitDetail" ->
            buildUnitDetailGraph(unit, subThemes, unitWords)
      [] view = "star" -> buildStarGraph(focusData)
      [] view = "wordFocus" ->
            buildWordFocusGraph(wordArgs.centralWord, wordArgs.connections,
                                wordArgs.unitCode)
      [] view = "oldWordFocus" ->
            oldBuildWordFocusGraph(wordArgs.centralWord, wordArgs.connections,
                                   wordArgs.unitCode)
      [] view = "galaxy" -> buildGalaxyGraph(units, wordCounts, crossUnitLinks)
      [] view = "unitOverview" -> buildUnitOverviewGraph(units, wordCounts)

\* variant: the arrays of the earlier call are kept and pushed onto
CallAgain_append ==
    /\ view # "none"
    /\ graphData' = [nodes |-> graphData.nodes \o BuiltGraph.nodes,
                     links |-> graphData.links \o BuiltGraph.links]
    /\ UNCHANGED <<inputVars, exploreVars, view, page>>
    /\ UNCHANGED recVars

\* the builder of the view called once more with the same arguments, as
\* goToGalaxy does with the stored units, counts and cross-unit rows
CallAgain ==
    /\ view # "none"
    /\ graphData' = BuiltGraph
    /\ page' = IF view = "wordFocus"
               THEN [badges |-> PageBadges(wordArgs.themeSiblings),
                     more |-> PageMore(wordArgs.themeSiblings)]
               ELSE page
    /\ UNCHANGED <<inputVars, exploreVars, view>>
    /\ UNCHANGED recVars

NextTwice ==
    \/ BuildCluster
    \/ BuildUnitDetail
    \/ BuildStar
    \/ WordPage
    \/ BuildOldWordFocus
    \/ BuildGalaxy
    \/ BuildUnitOverview
    \/ CallAgain

SpecTwice == InitViews /\ [][NextTwice]_vars

-----------------------------------------------------------------------------
(* The request ?wordId=1 against stored rows: the four signals of the       *)
(* handler, from the state in which the focal word was found (SpecSignals). *)
(* A store holds the rows of words in scan order, the rows that             *)
(* get_word_connections returns for the focal word, and the rows of         *)
(* get_theme_siblings before its limit.                                     *)

\* the focal word and the words 2 and 3, with edges and sibling rows
SmallStores ==
    {[words |-> <<t, a, b>>, edges |-> e, themes |-> th] :
        t \in WordRows(1), a \in WordRows(2), b \in WordRows(3),
        e \in {s \in SeqsUpTo([word_id : 1..3,
                                relationship_type : {"opposite"},
                                weight : {8}]
                               \cup [word_id : 1..3,
                                     relationship_type : {"semantic_similar"},
                                     weight : {6}], MaxStoredEdges) :
                  /\ \A i \in 1..Len(s) - 1 : s[i].weight >= s[i + 1].weight
                  /\ \A i, j \in 1..Len(s) :
                        (i # j /\ s[i].word_id = 1 /\ s[j].word_id = 1)
                            => s[i].relationship_type
                                   # s[j].relationship_type},
        th \in SeqsUpTo({2, 3}, MaxStoredThemeRows)}

\* many words of difficulty 2 or 4 next to a focal word of difficulty 3,
\* and the word 2 of difficulty 5
DifficultyStores ==
    {[words |-> <<[id |-> 1, root_id |-> Null, difficulty_score |-> Some(3)],
                  [id |-> 2, root_id |-> Null, difficulty_score |-> Some(5)]>>
                \o [i \in 1..m |->
                       [id |-> 2 + i, root_id |-> Null,
                        difficulty_score |->
                            Some(IF i % 2 = 0 THEN 2 ELSE 4)]],
      edges |-> <<>>, themes |-> <<>>] : m \in 0..MaxDiffMates}

\* many words in the sub-theme of the focal word
ThemeStores ==
    {[words |-> <<[id |-> 1, root_id |-> Null, difficulty_score |-> Null]>>,
      edges |-> <<>>,
      themes |-> [i \in 1..m |-> 1 + i]] : m \in 0..MaxThemeMates}

\* lines 14-33 done for ?wordId=1: the focal word is the first stored word
InitSignals ==
    /\ \E db \in SmallStores \cup DifficultyStores \cup ThemeStores :
          /\ store = Some(db)
          /\ targetWord = Some(db.words[1])
    /\ pc = "sameRoot"
    /\ wordIdParam = Some(<<"1">>)
    /\ limitParam = Null
    /\ targetId = Num(1)
    /\ limit = Num(10)
    /\ rootSiblings = <<>>
    /\ rels = <<>>
    /\ siblings = <<>>
    /\ diffWords = <<>>
    /\ scores = <<>>
    /\ ranked = <<>>
    /\ words = {}
    /\ queries = <<"words.single">>
    /\ status = 0
    /\ recommendations = <<>>
    /\ NoExplore
    /\ call = "none"
    /\ view = "none"
    /\ unit = [code |-> "A"]
    /\ subThemes = <<>>
    /\ unitWords = <<>>
    /\ relationships = <<>>
    /\ NoStarInput
    /\ NoGalaxyInput
    /\ page = [badges |-> <<>>, more |-> Null]
    /\ graphData = [nodes |-> <<>>, links |-> <<>>]

NextSignals ==
    \/ SameRoot
    \/ Relationships
    \/ SameTheme
    \/ Difficulty

SpecSignals == InitSignals /\ [][NextSignals]_vars

-----------------------------------------------------------------------------
(* app/explore/page.tsx: the explore page.  A load runs to its await at     *)
(* once; its fetch is pending until it resolves, in any order with the      *)
(* other pending fetches, and the rest of the load runs then.               *)

\* a load in flight; data holds what an earlier await of the load returned
Request(kind, id, code, word, data) ==
    [kind |-> kind, id |-> id, unitCode |-> code, wordId |-> word,
     data |-> data]
\* a navigation request: loadCluster, loadStar or goToGalaxy; ok tells
\* whether it has put its view on the page, mounted whether the first load
\* of the page was over when it was made
Nav(kind, id, code, word, ok) ==
    [kind |-> kind, id |-> id, unitCode |-> code, wordId |-> word, ok |-> ok,
     mounted |-> \A r \in pending : r.kind # "galaxy"]
NavCount == IF lastNav = Null THEN 0 ELSE Val(lastNav).id
\* the request r is over: the navigation requested last learns its outcome
Settled(r, ok) ==
    IF lastNav # Null /\ Val(lastNav).id = r.id /\ Val(lastNav).kind = r.kind
    THEN Some([Val(lastNav) EXCEPT !.ok = ok])
    ELSE lastNav

\* lines 62-68: the units and the cross-unit rows arrive, setUnits
LoadGalaxyUnits ==
    /\ \E r \in pending :
          /\ r.kind = "galaxy"
          /\ r.data = Null
          /\ \E u \in {<<>>, <<[code |-> "A"]>>},
                x \in {<<>>, <<[unit_code_1 |-> "A", unit_code_2 |-> "B",
                                shared_word_count |-> 10]>>} :
                /\ units' = u
                /\ pending' = (pending \ {r}) \cup
                      {Request("galaxy", r.id, "", 0,
                               Some([units |-> u, cross |-> x]))}
    /\ UNCHANGED <<loading, zoomLevel, activeUnit, breadcrumb, lastNav>>
    /\ UNCHANGED <<store, call, unit, subThemes, unitWords, relationships,
                   focusData, wordArgs, wordCounts, crossUnitLinks, view,
                   page, graphData>>
    /\ UNCHANGED recVars

\* lines 70-94: the counts arrive, the galaxy is shown
LoadGalaxyCounts ==
    /\ \E r \in pending :
          /\ r.kind = "galaxy"
          /\ r.data # Null
          /\ pending' = pending \ {r}
          /\ \E counts \in [{u.code : u \in Range(Val(r.data).units)}
                                -> {0, 64}] :
                /\ wordCounts' = counts
                /\ crossUnitLinks' = Val(r.data).cross
                /\ graphData' = buildGalaxyGraph(Val(r.data).units, counts,
                                                 Val(r.data).cross)
    /\ view' = "galaxy"
    /\ loading' = FALSE
    /\ UNCHANGED <<zoomLevel, activeUnit, breadcrumb, lastNav>>
    /\ UNCHANGED <<store, call, unit, subThemes, unitWords, relationships,
                   focusData, wordArgs, units, page>>
    /\ UNCHANGED recVars

\* lines 106-122: loadCluster(unitCode) up to its await
LoadCluster ==
    /\ NavCount < MaxLoads
    /\ \E code \in {"A", "B"} :
          /\ loading' = TRUE
          /\ IF \E i \in 1..Len(units) : units[i].code = code
             THEN /\ pending' = pending \cup
                        {Request("cluster", NavCount + 1, code, 0, Null)}
                  /\ lastNav' = Some(Nav("cluster", NavCount + 1, code, 0,
                                         "pending"))
             ELSE /\ pending' = pending
                  /\ lastNav' = Some(Nav("cluster", NavCount + 1, code, 0,
                                         "none"))
    /\ UNCHANGED <<zoomLevel, activeUnit, breadcrumb>>
    /\ UNCHANGED <<inputVars, view, page, graphData>>
    /\ UNCHANGED recVars

\* lines 124-154: the rows of the unit arrive, the cluster is shown
LoadClusterResolve ==
    /\ \E r \in pending :
          /\ r.kind = "cluster"
          /\ pending' = pending \ {r}
          /\ \E f \in {[subThemes |-> <<>>, words |-> <<>>],
                        [subThemes |-> <<[id |-> 1]>>,
                         words |-> <<[id |-> 1, sub_theme_id |-> 1]>>]} :
                graphData' = buildClusterGraph([code |-> r.unitCode],
                                               f.subThemes, f.words,
                                               Some(<<>>))
          /\ activeUnit' = Some(r.unitCode)
          /\ breadcrumb' = <<Crumb(1, "", 0), Crumb(2, r.unitCode, 0)>>
          /\ lastNav' = Settled(r, "data")
    /\ view' = "cluster"
    /\ zoomLevel' = 2
    /\ loading' = FALSE
    /\ UNCHANGED <<inputVars, page>>
    /\ UNCHANGED recVars

\* lines 159-166: loadStar(wordId) up to its await
LoadStar ==
    /\ NavCount < MaxLoads
    /\ loading' = TRUE
    /\ pending' = pending \cup
          {Request("star", NavCount + 1, "", FocalId, Null)}
    /\ lastNav' = Some(Nav("star", NavCount + 1, "", FocalId, "pending"))
    /\ UNCHANGED <<zoomLevel, activeUnit, breadcrumb>>
    /\ UNCHANGED <<inputVars, view, page, graphData>>
    /\ UNCHANGED recVars

\* lines 166-192: the focus data arrive, the star is shown when there is a
\* word in them
LoadStarResolve ==
    /\ \E r \in pending :
          /\ r.kind = "star"
          /\ pending' = pending \ {r}
          /\ \E f \in {Null, Some(NoFocus),
                        Some([NoFocus EXCEPT !.relationships =
                                <<[word_id |-> 2,
                                   relationship_type |-> "opposite",
                                   weight |-> 8]>>])} :
                IF f = Null
                THEN /\ lastNav' = Settled(r, "none")
                     /\ UNCHANGED <<graphData, view, zoomLevel, breadcrumb>>
                ELSE /\ lastNav' = Settled(r, "data")
                     /\ graphData' = buildStarGraph(Val(f))
                     /\ view' = "star"
                     /\ zoomLevel' = 3
                     /\ breadcrumb' =
                           Append(SelectSeq(breadcrumb,
                                            LAMBDA b : b.level < 3),
                                  Crumb(3, "", r.wordId))
    /\ loading' = FALSE
    /\ UNCHANGED activeUnit
    /\ UNCHANGED <<inputVars, page>>
    /\ UNCHANGED recVars

\* lines 242-252: goToGalaxy, no fetch
GoToGalaxy ==
    /\ NavCount < MaxLoads
    /\ zoomLevel' = 1
    /\ activeUnit' = Null
    /\ breadcrumb' = <<Crumb(1, "", 0)>>
    /\ graphData' = buildGalaxyGraph(units, wordCounts, crossUnitLinks)
    /\ view' = "galaxy"
    /\ lastNav' = Some(Nav("galaxy", NavCount + 1, "", 0, "data"))
    /\ UNCHANGED <<loading, pending>>
    /\ UNCHANGED <<inputVars, page>>
    /\ UNCHANGED recVars

\* the page after mounting: loadGalaxy has started its fetch
InitExplore ==
    /\ InitRec
    /\ store = Null
    /\ call = "none"
    /\ view = "none"
    /\ NoClusterInput
    /\ NoStarInput
    /\ NoGalaxyInput
    /\ page = [badges |-> <<>>, more |-> Null]
    /\ graphData = [nodes |-> <<>>, links |-> <<>>]
    /\ loading = TRUE
    /\ zoomLevel = 1
    /\ activeUnit = Null
    /\ breadcrumb = <<Crumb(1, "", 0)>>
    /\ pending = {Request("galaxy", 0, "", 0, Null)}
    /\ lastNav = Null

NextExplore ==
    \/ LoadGalaxyUnits
    \/ LoadGalaxyCounts
    \/ LoadCluster
    \/ LoadClusterResolve
    \/ LoadStar
    \/ LoadStarResolve
    \/ GoToGalaxy

SpecExplore == InitExplore /\ [][NextExplore]_vars

\* every fetch resolves (a resolution takes its load out of pending);
\* nothing obliges the visitor to navigate
SpecExploreLive ==
    /\ SpecExplore
    /\ WF_exploreVars(LoadGalaxyUnits)
    /\ WF_exploreVars(LoadGalaxyCounts)
    /\ WF_exploreVars(LoadClusterResolve)
    /\ WF_exploreVars(LoadStarResolve)

-----------------------------------------------------------------------------
(* Properties of the recommendation endpoint (Spec) *)

Count(s, P(_)) == Cardinality({i \in 1..Len(s) : P(s[i])})
Entry(id) == scores[CHOOSE i \in 1..Len(scores) : scores[i].id = id]
RankedPos(id) ==
    IF \E i \in 1..Len(ranked) : ranked[i].id = id
    THEN CHOOSE i \in 1..Len(ranked) : ranked[i].id = id ELSE 0
RecPos(id) ==
    IF \E i \in 1..Len(recommendations) : recommendations[i].word = id
    THEN CHOOSE i \in 1..Len(recommendations) : recommendations[i].word = id
    ELSE 0
SignalsDone == pc \in {"rank", "resolve", "done"} /\ targetWord # Null
Ranked == pc \in {"resolve", "done"} /\ targetWord # Null
Answered == pc = "done" /\ status = 200

\* C1: the recommendation list never contains the focal item id, whatever
\* rows the signals return, rows carrying the focal id included; the focal id
\* is not even scored.
C1_NoFocalRecommended ==
    /\ \A i \in 1..Len(recommendations) :
          targetId.nan \/ recommendations[i].word # targetId.n
    /\ \A i \in 1..Len(scores) : targetId.nan \/ scores[i].id # targetId.n

\* C1 witness: a non-empty answer to a request whose relationship rows
\* carried the focal id.
C1_Witness ==
    /\ Answered
    /\ recommendations # <<>>
    /\ \E i \in 1..Len(rels) : rels[i].word_id = targetId.n

\* C2 (as claimed): the answered list is in descending score order and two
\* entries of equal score are in ascending id order.
C2_TieBreakById ==
    Answered =>
        \A i, j \in 1..Len(recommendations) :
            i < j =>
                LET a == recommendations[i]
                    b == recommendations[j]
                IN  \/ ScoreCmp(a.score, b.score) > 0
                    \/ ScoreCmp(a.score, b.score) = 0 /\ a.word < b.word

\* the candidate's only contributions are same-root and one same-theme row
OnlyRootAndOneTheme(c) ==
    /\ c \in Range(rootSiblings)
    /\ Count(siblings, LAMBDA x : x = c) = 1
    /\ Count(rels, LAMBDA r : r.word_id = c) = 0
    /\ c \notin Range(diffWords)

\* the candidate's only contribution is one relationship edge of weight 0.8
OnlyOneEdge08(d) ==
    /\ d \notin Range(rootSiblings)
    /\ d \notin Range(siblings)
    /\ d \notin Range(diffWords)
    /\ Count(rels, LAMBDA r : r.word_id = d) = 1
    /\ Count(rels, LAMBDA r : r.word_id = d /\ r.weight = 8) = 1

\* C3: scores are additive: a candidate (a word other than the focal one)
\* whose only signals are the same root and one shared sub-theme scores
\* 0.9 + 0.7 = 1.6 with reasons [same_root, same_theme], and is ranked and
\* returned before a candidate whose only signal is one edge of weight 0.8
\* (score 0.8).
C3_AdditiveScores ==
    SignalsDone =>
        \A c \in WordIds \ {targetId.n} :
            OnlyRootAndOneTheme(c) =>
                /\ Entry(c).score = [tenths |-> 16, ulps |-> 0]
                /\ Entry(c).reasons = <<"same_root", "same_theme">>
                /\ \A d \in WordIds \ {targetId.n} :
                      OnlyOneEdge08(d) =>
                          /\ Entry(d).score = [tenths |-> 8, ulps |-> 0]
                          /\ (Ranked /\ RankedPos(d) > 0) =>
                                (RankedPos(c) > 0 /\ RankedPos(c) < RankedPos(d))
                          /\ (RecPos(c) > 0 /\ RecPos(d) > 0) =>
                                RecPos(c) < RecPos(d)

\* C3 witness: both candidates of the example were returned.
C3_Witness ==
    /\ Answered
    /\ \E c, d \in WordIds \ {targetId.n} :
          /\ OnlyRootAndOneTheme(c)
          /\ OnlyOneEdge08(d)
          /\ RecPos(c) > 0
          /\ RecPos(d) > 0

\* C4: for a positive limit N (10 when the parameter is absent or empty) the
\* ranked list has min(N, number of scored candidates) entries, no scored
\* candidate left out outscores one that was taken, and the answer has at
\* most N entries, namely the taken ones that were resolved.
C4_TopN ==
    (Ranked /\ ~limit.nan /\ limit.n > 0) =>
        /\ Falsy(limitParam) => limit.n = 10
        /\ Len(ranked) = (IF limit.n < Len(scores) THEN limit.n
                          ELSE Len(scores))
        /\ \A i \in 1..Len(ranked) : \E j \in 1..Len(scores) :
              ranked[i] = scores[j]
        /\ \A i, j \in 1..Len(ranked) : i # j => ranked[i].id # ranked[j].id
        /\ \A j \in 1..Len(scores) :
              scores[j].id \notin Ids(ranked) =>
                  \A i \in 1..Len(ranked) :
                      ScoreCmp(ranked[i].score, scores[j].score) >= 0
        /\ Len(recommendations) <= limit.n
        /\ Answered =>
              {recommendations[i].word : i \in 1..Len(recommendations)}
                  = Ids(ranked) \cap words

\* C4 witness: limit 1 with at least two scored candidates, one returned.
C4_Witness ==
    /\ Answered
    /\ ~limit.nan
    /\ limit.n = 1
    /\ Len(scores) >= 2
    /\ Len(recommendations) = 1

\* C5 (as claimed): a limit that is zero or negative gives the empty list
\* with a normal answer.
C5_NonPositiveLimitEmpty ==
    (pc = "done" /\ targetWord # Null /\ ~limit.nan /\ limit.n <= 0) =>
        (status = 200 /\ recommendations = <<>>)

\* C6: when the focal id resolves to no word the answer is 404, the target
\* fetch is the only data access made, and nothing is scored, ranked or
\* returned.
C6_NotFoundNoWork ==
    (queries # <<>> /\ targetWord = Null) =>
        /\ pc = "done"
        /\ status = 404
        /\ queries = <<"words.single">>
        /\ scores = <<>>
        /\ ranked = <<>>
        /\ recommendations = <<>>

\* C6 witness: a numeric focal id that was looked up and not found.
C6_Witness ==
    /\ pc = "done"
    /\ status = 404
    /\ ~targetId.nan
    /\ targetId.n \in WordIds

\* the wordId parameter is absent, empty or not a string of digits
MalformedId(p) ==
    \/ p = Null
    \/ Val(p) = <<>>
    \/ \E i \in 1..Len(Val(p)) : ~IsDigit(Val(p)[i])

\* C7 (as claimed): a missing or malformed focal id is answered with 400
\* before any data access.
C7_InvalidInputFirst ==
    (pc = "done" /\ MalformedId(wordIdParam)) =>
        (status = 400 /\ queries = <<>>)

\* C8: every returned entry has a resolved word and is one of the ranked
\* top-N entries with its score and reasons, in the ranked order; the ranked
\* entries that were not resolved are missing and nothing takes their place.
C8_DroppedNotReplaced ==
    Answered =>
        /\ \A i \in 1..Len(recommendations) :
              /\ recommendations[i].word \in words
              /\ RankedPos(recommendations[i].word) > 0
              /\ LET r == ranked[RankedPos(recommendations[i].word)]
                 IN  /\ recommendations[i].score = r.score
                     /\ recommendations[i].reasons = r.reasons
        /\ \A i, j \in 1..Len(recommendations) :
              i < j => RankedPos(recommendations[i].word)
                           < RankedPos(recommendations[j].word)
        /\ Len(recommendations) = Cardinality(Ids(ranked) \cap words)

\* C8 witness: a ranked candidate was not resolved while a scored candidate
\* below the cut existed, and the answer stayed without it.
C8_Witness ==
    /\ Answered
    /\ Len(scores) > Len(ranked)
    /\ \E id \in Ids(ranked) : id \notin words
    /\ Len(recommendations) < Len(ranked)

-----------------------------------------------------------------------------
(* Properties of the graph builders (SpecGraph) *)

Built == view \in {"cluster", "unitDetail"}
NodesOfType(t) == {i \in 1..Len(graphData.nodes) : graphData.nodes[i].type = t}
NodesWithId(id) == {i \in 1..Len(graphData.nodes) : graphData.nodes[i].id = id}
ContainsLinks(src, tgt) ==
    {i \in 1..Len(graphData.links) :
        /\ graphData.links[i].type = "contains"
        /\ graphData.links[i].source = src
        /\ graphData.links[i].target = tgt}
LinksInto(tgt) ==
    {i \in 1..Len(graphData.links) :
        graphData.links[i].type = "contains" /\ graphData.links[i].target = tgt}
RowsOfWord(w) == {i \in 1..Len(unitWords) : unitWords[i].id = w}

\* C9: in a unit detail graph the ids of the word nodes are exactly the ids
\* of the words of the membership rows, and no id is on two nodes.
C9_ItemNodesAreDistinctItems ==
    Built =>
        /\ {graphData.nodes[i].id : i \in NodesOfType("word")}
              = {WordNodeId(unitWords[i].id) : i \in 1..Len(unitWords)}
        /\ \A i, j \in NodesOfType("word") :
              i # j => graphData.nodes[i].id # graphData.nodes[j].id

\* C9 witness: a cluster graph built from rows in which a word occurs twice,
\* with one node for it.
C9_Witness ==
    /\ view = "cluster"
    /\ \E w \in UnitWordIds : Cardinality(RowsOfWord(w)) = 2
    /\ Cardinality(NodesOfType("word")) = 1

\* C10: every membership row has exactly one contains link from its
\* sub-theme to its word, a word of k rows has one node and k such links, and
\* every sub-theme has exactly one contains link from the unit node.
C10_MembershipLinks ==
    Built =>
        /\ \A i \in 1..Len(unitWords) :
              Cardinality(ContainsLinks(StNodeId(unitWords[i].sub_theme_id),
                                        WordNodeId(unitWords[i].id))) = 1
        /\ \A w \in UnitWordIds :
              /\ Cardinality(LinksInto(WordNodeId(w)))
                    = Cardinality(RowsOfWord(w))
              /\ Cardinality(NodesWithId(WordNodeId(w)))
                    = (IF RowsOfWord(w) = {} THEN 0 ELSE 1)
        /\ \A i \in 1..Len(subThemes) :
              Cardinality(ContainsLinks(UnitNodeId(unit.code),
                                        StNodeId(subThemes[i].id))) = 1

\* C10 witness: a cluster graph of two sub-themes that share a word.
C10_Witness ==
    /\ view = "cluster"
    /\ Len(subThemes) = 2
    /\ \E w \in UnitWordIds :
          /\ Cardinality(RowsOfWord(w)) = 2
          /\ Cardinality(NodesWithId(WordNodeId(w))) = 1
          /\ Cardinality(LinksInto(WordNodeId(w))) = 2

\* the rows of relationships, none when the parameter was not passed
EdgeRowsGiven == IF relationships = Null THEN <<>> ELSE Val(relationships)
MemberWordIds == {unitWords[i].id : i \in 1..Len(unitWords)}
BothInView(rel) ==
    rel.word_id_1 \in MemberWordIds /\ rel.word_id_2 \in MemberWordIds
IsEdgeLink(l) == l.type # "contains"
RECURSIVE EndsOf(_)
EndsOf(rows) ==
    IF rows = <<>> THEN <<>>
    ELSE <<[source |-> "word-" \o ToString(Head(rows).word_id_1),
            target |-> "word-" \o ToString(Head(rows).word_id_2),
            type |-> Head(rows).relationship_type]>> \o EndsOf(Tail(rows))
RECURSIVE LinkEnds(_)
LinkEnds(ls) ==
    IF ls = <<>> THEN <<>>
    ELSE <<[source |-> Head(ls).source, target |-> Head(ls).target,
            type |-> Head(ls).type]>> \o LinkEnds(Tail(ls))

\* C11: in a cluster graph the relationship links are, in order, the
\* relationship rows whose two words are both among the words of the view:
\* such a row gives one link between its two word nodes, any other row gives
\* no link, and no row adds a node (the nodes are the unit, the sub-themes
\* and the words of the membership rows).
C11_EdgeLinkIffBothInView ==
    view = "cluster" =>
        /\ LinkEnds(SelectSeq(graphData.links, IsEdgeLink))
              = EndsOf(SelectSeq(EdgeRowsGiven, BothInView))
        /\ Len(graphData.nodes)
              = 1 + Len(subThemes) + Cardinality(MemberWordIds)

\* C11 witness: a cluster graph with word nodes, built with a relationship
\* row of which one word is in the view and the other is not, and without a
\* relationship link.
C11_Witness ==
    /\ view = "cluster"
    /\ \E i \in 1..Len(EdgeRowsGiven) :
          /\ EdgeRowsGiven[i].word_id_1 \in MemberWordIds
          /\ EdgeRowsGiven[i].word_id_2 \notin MemberWordIds
    /\ SelectSeq(graphData.links, IsEdgeLink) = <<>>

-----------------------------------------------------------------------------
(* Properties of the star view and of the word page (SpecStar) *)

FocalNodeId == "word-" \o ToString(focusData.word.id)
SameThemeLinks ==
    {i \in 1..Len(graphData.links) : graphData.links[i].type = "same_theme"}
SiblingNodes ==
    {i \in 1..Len(graphData.nodes) : graphData.nodes[i].size = 7}
RelatedIds ==
    {focusData.relationships[i].word_id :
        i \in 1..Len(focusData.relationships)}
SiblingIds ==
    {focusData.theme_siblings[i].word_id :
        i \in 1..Len(focusData.theme_siblings)}

\* C14: in a star graph only the first node, the centre, has the id of the
\* focal word, and no link goes from the centre to the centre, whatever the
\* relationship and sibling rows are.
C14_FocalOnlyAtCentre ==
    view = "star" =>
        /\ \A i \in 1..Len(graphData.nodes) :
              graphData.nodes[i].id = FocalNodeId <=> i = 1
        /\ \A i \in 1..Len(graphData.links) :
              graphData.links[i].source # graphData.links[i].target

\* C15: in a star graph at most 20 links are same_theme links and at most 20
\* nodes are sibling nodes, however many sibling rows were given; the
\* same_theme links are as many as the rows, up to 20.
C15_AtMostTwentySiblings ==
    view = "star" =>
        /\ Cardinality(SiblingNodes) <= 20
        /\ Cardinality(SameThemeLinks)
              = (IF Len(focusData.theme_siblings) < 20
                 THEN Len(focusData.theme_siblings) ELSE 20)

\* C15 witness: a star graph built from more than 20 sibling rows, with 20
\* same_theme links.
C15_Witness ==
    /\ view = "star"
    /\ Len(focusData.theme_siblings) > 20
    /\ Cardinality(SameThemeLinks) = 20

\* C16: in a star graph a word that is in a relationship row and in a
\* sibling row has one node, the node of a relation (size 12), and no
\* same_theme link goes to it.
C16_RelationTakesPrecedence ==
    view = "star" =>
        \A w \in (RelatedIds \cap SiblingIds) \ {focusData.word.id} :
            LET wId == "word-" \o ToString(w) IN
            /\ \E i \in 1..Len(graphData.nodes) :
                  /\ graphData.nodes[i].id = wId
                  /\ graphData.nodes[i].size = 12
                  /\ \A j \in 1..Len(graphData.nodes) :
                        graphData.nodes[j].id = wId => j = i
            /\ \A i \in SameThemeLinks : graphData.links[i].target # wId

FirstTwenty(rows) == SubSeq(rows, 1, IF Len(rows) < 20 THEN Len(rows) ELSE 20)

-----------------------------------------------------------------------------
(* Properties of the galaxy view (SpecGalaxy) *)

Overview == view \in {"galaxy", "unitOverview"}
GivenCodes == {units[i].code : i \in 1..Len(units)}
UnitNodesOf(code) ==
    {i \in 1..Len(graphData.nodes) :
        /\ graphData.nodes[i].id = "unit-" \o code
        /\ graphData.nodes[i].type = "unit"}

-----------------------------------------------------------------------------
(* Properties of every view (SpecViews) *)

AnyBuilt == view # "none"
LinkIdx == 1..Len(graphData.links)
NodeIdx == 1..Len(graphData.nodes)

\* C12: in the graph of every builder a link has dashed = true exactly when
\* its type is opposite or semantic_similar; a link of any other type, a
\* cross_unit link included, has it false or absent.
C12_DashedIffOppositeOrSimilar ==
    AnyBuilt =>
        \A i \in LinkIdx :
            (graphData.links[i].dashed = Some(TRUE))
                <=> graphData.links[i].type \in {"opposite", "semantic_similar"}

IdsOfType(t) ==
    {graphData.nodes[i].id : i \in {j \in NodeIdx : graphData.nodes[j].type = t}}
WordsOfConnections ==
    {wordArgs.connections[i].word.id : i \in 1..Len(wordArgs.connections)}
\* the raw ids of the words a view has nodes for
WordsOfView ==
    CASE view \in {"cluster", "unitDetail"} ->
            {unitWords[i].id : i \in 1..Len(unitWords)}
      [] view = "star" ->
            {focusData.word.id} \cup RelatedIds
              \cup {focusData.theme_siblings[i].word_id :
                       i \in 1..(IF Len(focusData.theme_siblings) < 20
                                 THEN Len(focusData.theme_siblings) ELSE 20)}
      [] view \in {"wordFocus", "oldWordFocus"} ->
            {wordArgs.centralWord.id} \cup WordsOfConnections
      [] OTHER -> {}
SubThemesOfView ==
    IF view \in {"cluster", "unitDetail"}
    THEN {subThemes[i].id : i \in 1..Len(subThemes)} ELSE {}
UnitsOfView ==
    CASE view \in {"cluster", "unitDetail"} -> {unit.code}
      [] view \in {"galaxy", "unitOverview"} -> GivenCodes
      [] OTHER -> {}

\* C18: in the graph of every builder two nodes of different types never
\* have the same id, also when a sub-theme and a word have the same raw id;
\* and the id of a node is made of its kind and its raw id in the same way
\* in every view: unit-<code>, st-<id>, word-<id>.
C18_IdsByKind ==
    AnyBuilt =>
        /\ \A i, j \in NodeIdx :
              graphData.nodes[i].id = graphData.nodes[j].id
                  => graphData.nodes[i].type = graphData.nodes[j].type
        /\ IdsOfType("unit") = {"unit-" \o c : c \in UnitsOfView}
        /\ IdsOfType("sub_theme")
              = {"st-" \o ToString(t) : t \in SubThemesOfView}
        /\ IdsOfType("word") = {"word-" \o ToString(w) : w \in WordsOfView}
        /\ \A i \in NodeIdx :
              graphData.nodes[i].type \in {"unit", "sub_theme", "word"}

\* C18 witness: a cluster graph with the node of sub-theme 1 and the node of
\* word 1.
C18_Witness ==
    /\ view = "cluster"
    /\ "st-1" \in IdsOfType("sub_theme")
    /\ "word-1" \in IdsOfType("word")

C19_HandlerKeepsRows ==
    [][/\ targetWord' # targetWord => pc = "fetchTarget"
       /\ rootSiblings' # rootSiblings => pc = "sameRoot"
       /\ rels' # rels => pc = "relationships"
       /\ siblings' # siblings => pc = "sameTheme"
       /\ diffWords' # diffWords => pc = "difficulty"]_vars

EmptyInput ==
    CASE view = "galaxy" -> units = <<>> /\ crossUnitLinks = <<>>
      [] view = "cluster" ->
            /\ subThemes = <<>>
            /\ unitWords = <<>>
            /\ relationships \in {Null, Some(<<>>)}
      [] view = "star" ->
            focusData.relationships = <<>> /\ focusData.theme_siblings = <<>>
      [] OTHER -> FALSE

\* C20, as stated: the galaxy, cluster and star builders return no nodes and
\* no links for empty input.
C20_EmptyInputEmptyGraph ==
    EmptyInput => graphData = [nodes |-> <<>>, links |-> <<>>]

\* C20, amended: for empty input each of the three builders returns a graph
\* without links; the galaxy graph has no nodes, the cluster graph has one
\* node, the unit, and the star graph has one node, the focal word.
C20_EmptyInputCentreOnly ==
    EmptyInput =>
        /\ graphData.links = <<>>
        /\ view = "galaxy" => graphData.nodes = <<>>
        /\ view = "cluster" =>
              /\ Len(graphData.nodes) = 1
              /\ graphData.nodes[1].id = "unit-" \o unit.code
              /\ graphData.nodes[1].type = "unit"
        /\ view = "star" =>
              /\ Len(graphData.nodes) = 1
              /\ graphData.nodes[1].id = FocalNodeId
              /\ graphData.nodes[1].type = "word"

\* C20 witness: a star graph built from focus data without rows.
C20_Witness ==
    /\ view = "star"
    /\ EmptyInput
    /\ Len(graphData.nodes) = 1

GivenCount(i) ==
    IF units[i].code \in DOMAIN wordCounts THEN wordCounts[units[i].code]
    ELSE 0
\* a < b for two sizes, as fractions
SizeLeq(a, b) == a.num * b.den <= b.num * a.den
Whole(n) == [num |-> n, den |-> 1]

\* C22: in an overview graph the size of every unit node lies between the
\* least and the greatest size of its builder (30 and 55 in the galaxy, 20
\* and 50 in the earlier unit overview), also for a count of 0 and for a
\* unit without a count, and of two units the one with the smaller or equal
\* count has the smaller or equal size.
C22_SizeMonotonicClamped ==
    Overview =>
        LET lo == IF view = "galaxy" THEN Whole(30) ELSE Whole(20)
            hi == IF view = "galaxy" THEN Whole(55) ELSE Whole(50)
        IN  /\ Len(graphData.nodes) = Len(units)
            /\ \A i \in 1..Len(units) :
                  /\ SizeLeq(lo, graphData.nodes[i].size)
                  /\ SizeLeq(graphData.nodes[i].size, hi)
            /\ \A i, j \in 1..Len(units) :
                  GivenCount(i) <= GivenCount(j)
                      => SizeLeq(graphData.nodes[i].size,
                                 graphData.nodes[j].size)

\* C22 witness: a galaxy graph of a unit without a count, of the least
\* size, and a unit of 300 words, of the greatest size.
C22_Witness ==
    /\ view = "galaxy"
    /\ Len(units) = 2
    /\ units[1].code \notin DOMAIN wordCounts
    /\ GivenCount(2) = 300
    /\ graphData.nodes[1].size = [num |-> 240, den |-> 8]
    /\ graphData.nodes[2].size = [num |-> 440, den |-> 8]

\* C23, as stated: a galaxy graph has one node per unit given and one link
\* per cross-unit row, and the width of a link is its row's shared count
\* times a fixed factor, a tenth.
C23_WidthProportional ==
    view = "galaxy" =>
        /\ Len(graphData.nodes) = Len(units)
        /\ Len(graphData.links) = Len(crossUnitLinks)
        /\ \A i \in 1..Len(graphData.links) :
              graphData.links[i].width = crossUnitLinks[i].shared_word_count

\* C23, amended: a galaxy graph has one node per unit given, with the id of
\* that unit, and one link per cross-unit row, between the ids of the row's
\* two units; the link carries the shared count of its row, and its width
\* is a tenth of that count, but not less than 0.5 and not more than 3.
C23_WidthClamped ==
    view = "galaxy" =>
        /\ Len(graphData.nodes) = Len(units)
        /\ \A i \in 1..Len(units) :
              graphData.nodes[i].id = "unit-" \o units[i].code
        /\ Len(graphData.links) = Len(crossUnitLinks)
        /\ \A i \in 1..Len(graphData.links) :
              LET l == graphData.links[i]
                  n == crossUnitLinks[i].shared_word_count
              IN  /\ l.source = "unit-" \o crossUnitLinks[i].unit_code_1
                  /\ l.target = "unit-" \o crossUnitLinks[i].unit_code_2
                  /\ l.sharedWordCount = n
                  /\ l.width = (IF n < 5 THEN 5 ELSE IF n > 30 THEN 30 ELSE n)

\* C23 witness: a galaxy graph of two units and a link for a row of 40
\* shared words, of width 3.
C23_Witness ==
    /\ view = "galaxy"
    /\ Len(graphData.nodes) = 2
    /\ Len(graphData.links) = 1
    /\ crossUnitLinks[1].shared_word_count = 40
    /\ graphData.links[1].width = 30

-----------------------------------------------------------------------------
(* Properties of the signals against stored rows (SpecSignals) *)

Db == Val(store)
Scored(c) ==
    IF c \in Ids(scores) THEN Entry(c)
    ELSE [id |-> c, score |-> Zero, reasons |-> <<>>]
Times(c, reason) == Count(Scored(c).reasons, LAMBDA r : r = reason)
Candidates == (Ids(Db.words) \cup Ids(scores) \cup Range(Db.themes)) \ {1}
EdgesAt(c, t) ==
    {i \in 1..Len(Db.edges) :
        Db.edges[i].word_id = c /\ Db.edges[i].relationship_type = t}
RECURSIVE WeightAt(_, _)
WeightAt(c, edges) ==
    IF edges = <<>> THEN 0
    ELSE (IF Head(edges).word_id = c THEN Head(edges).weight ELSE 0)
             + WeightAt(c, Tail(edges))
AfterEdges == store # Null /\ pc \in {"sameTheme", "difficulty", "rank"}

StoredWord(c) == Db.words[CHOOSE i \in 1..Len(Db.words) : Db.words[i].id = c]
FocalDifficulty == Val(targetWord).difficulty_score
NearWords ==
    IF FocalDifficulty = Null THEN {}
    ELSE {c \in Ids(Db.words) \ {1} :
            LET d == StoredWord(c).difficulty_score
            IN  /\ d # Null
                /\ Val(d) - Val(FocalDifficulty) \in {-1, 0, 1}}
GotDifficulty == {c \in Candidates : Times(c, "similar_difficulty") = 1}
AfterDifficulty == store # Null /\ pc = "rank"

\* C25 as stated: when the focal word has a difficulty, every other stored
\* word whose difficulty is within one of it has the reason
\* "similar_difficulty" exactly once and no other word has it, however many
\* such words are stored; without a focal difficulty nobody has it.
C25_EveryNearWordOnce ==
    AfterDifficulty =>
        \A c \in Candidates :
            Times(c, "similar_difficulty") = (IF c \in NearWords THEN 1 ELSE 0)

\* C25: nobody has the reason "similar_difficulty" twice, only words whose
\* difficulty is within one of the focal word's have it, and they are all
\* of these words up to twenty of them: twenty when more are stored.
\* Without a focal difficulty nobody has it.
C25_NearWordsOnceUpToTwenty ==
    AfterDifficulty =>
        /\ \A c \in Candidates : Times(c, "similar_difficulty") <= 1
        /\ GotDifficulty \subseteq NearWords
        /\ Cardinality(GotDifficulty) = Min(20, Cardinality(NearWords))
        /\ FocalDifficulty = Null => GotDifficulty = {}

\* C25 witness: more than twenty words are near the focal difficulty and
\* twenty of them were scored.
C25_Witness ==
    /\ AfterDifficulty
    /\ Cardinality(NearWords) > 20
    /\ Cardinality(GotDifficulty) = 20

RowsOf(c) == Cardinality({i \in 1..Len(siblings) : siblings[i] = c})
AfterTheme == store # Null /\ pc \in {"difficulty", "rank"}

\* C26 as stated: a candidate returned in k sibling rows has the reason
\* "same_theme" k times and k times 0.7 in its score, and every word that
\* shares a sub-theme with the focal word has the reason at least once.
C26_EverySiblingScored ==
    AfterTheme =>
        \A c \in Candidates :
            /\ Times(c, "same_theme") = RowsOf(c)
            /\ Scored(c).score.tenths =
                   9 * Times(c, "same_root") + WeightAt(c, Db.edges)
                       + 7 * RowsOf(c) + 5 * Times(c, "similar_difficulty")
            /\ c \in Range(Db.themes) => Times(c, "same_theme") >= 1

\* C26: the returned sibling rows are the stored ones up to fifty of them;
\* a candidate returned in k sibling rows has the reason "same_theme" k
\* times and k times 0.7 in its score, so every returned word has the
\* reason at least once.
C26_ReturnedSiblingsAdditive ==
    AfterTheme =>
        /\ siblings = SubSeq(Db.themes, 1, Min(50, Len(Db.themes)))
        /\ \A c \in Candidates :
              /\ Times(c, "same_theme") = RowsOf(c)
              /\ Scored(c).score.tenths =
                     9 * Times(c, "same_root") + WeightAt(c, Db.edges)
                         + 7 * RowsOf(c)
                         + 5 * Times(c, "similar_difficulty")

\* C26 witness: more than fifty sibling rows are stored, and a word that
\* shares a sub-theme with the focal word was not scored.
C26_Witness ==
    /\ AfterTheme
    /\ Len(Db.themes) > 50
    /\ Len(siblings) = 50
    /\ \E c \in Range(Db.themes) : c \notin Ids(scores)

Repeat(n, x) == [i \in 1..n |-> x]
TimesIn(rows, c) == Cardinality({i \in 1..Len(rows) : rows[i] = c})
RECURSIVE TypesAt(_, _)
TypesAt(c, rows) ==
    IF rows = <<>> THEN <<>>
    ELSE (IF Head(rows).word_id = c THEN <<Head(rows).relationship_type>>
          ELSE <<>>) \o TypesAt(c, Tail(rows))
\* the contributions the rows received so far make to c, in signal order
Contributions(c) ==
    Repeat(TimesIn(rootSiblings, c), "same_root") \o TypesAt(c, rels)
        \o Repeat(TimesIn(siblings, c), "same_theme")
        \o Repeat(TimesIn(diffWords, c), "similar_difficulty")

\* C28: at every point of the computation the scores hold one entry for
\* every word other than the focal one that a received row named, and no
\* other entry; the reasons of an entry are its contributions, one entry per
\* contribution in the order of the signals (same root, edges, same theme,
\* similar difficulty), never empty, and its score is the sum of the
\* weights contributed.
C28_ScoreIsSumReasonsInOrder ==
    store # Null =>
        /\ \A i, j \in 1..Len(scores) : i # j => scores[i].id # scores[j].id
        /\ \A c \in Candidates \ Ids(scores) : Contributions(c) = <<>>
        /\ \A i \in 1..Len(scores) :
              /\ scores[i].id # 1
              /\ scores[i].reasons # <<>>
              /\ scores[i].reasons = Contributions(scores[i].id)
              /\ scores[i].score.tenths =
                     9 * TimesIn(rootSiblings, scores[i].id)
                         + WeightAt(scores[i].id, rels)
                         + 7 * TimesIn(siblings, scores[i].id)
                         + 5 * TimesIn(diffWords, scores[i].id)

\* C28 witness: an entry with a contribution of every signal, two of them
\* of the same signal.
C28_Witness ==
    /\ store # Null
    /\ pc = "rank"
    /\ \E i \in 1..Len(scores) :
          /\ Len(scores[i].reasons) >= 5
          /\ {"same_root", "same_theme", "similar_difficulty"}
                 \subseteq Range(scores[i].reasons)
          /\ TypesAt(scores[i].id, rels) # <<>>

-----------------------------------------------------------------------------
(* No dangling links (SpecViews) *)

NodeIdsOfGraph == {graphData.nodes[i].id : i \in NodeIdx}

\* C27: in the graph of buildGalaxyGraph, buildClusterGraph and
\* buildStarGraph the source and the target of every link are ids of nodes
\* of the same graph, whatever the inputs: bridge rows naming a unit that was
\* not given and word rows naming a sub-theme that was not given included.
C27_NoDanglingLinks ==
    view \in {"galaxy", "cluster", "star"} =>
        \A i \in LinkIdx :
            /\ graphData.links[i].source \in NodeIdsOfGraph
            /\ graphData.links[i].target \in NodeIdsOfGraph

\* C27, the star view alone: every link of buildStarGraph joins the central
\* node and a node of the graph.
C27_StarLinksJoinNodes ==
    view = "star" =>
        \A i \in LinkIdx :
            /\ graphData.links[i].source = graphData.nodes[1].id
            /\ graphData.links[i].target \in NodeIdsOfGraph

-----------------------------------------------------------------------------
(* Properties of the explore page (SpecExplore, SpecExploreLive) *)

\* C29: whenever a load has set loading to true, loading is false again at
\* some later time, whatever the fetches return: a cluster request for a
\* unit code that is not in the loaded list and a star request whose focus
\* data have no word included.
C29_LoadingEventuallyFalse == (loading = TRUE) ~> (loading = FALSE)

\* C29, limited to the loads that reach their fetch: while a fetch is
\* pending, loading becomes false at some later time.
C29_FetchedLoadsReset == (pending # {}) ~> (loading = FALSE)

\* C30: once no fetch is pending, the page shows the navigation requested
\* last, when that one had a view to show and was made after the first load
\* of the page: zoomLevel, activeUnit, breadcrumb and the builder of
\* graphData are those of its load, not those of the load whose fetch
\* resolved last.
C30_LastRequestedWins ==
    (/\ pending = {}
     /\ lastNav # Null
     /\ Val(lastNav).ok = "data"
     /\ Val(lastNav).mounted) =>
        LET n == Val(lastNav)
        IN  CASE n.kind = "galaxy" ->
                    /\ view = "galaxy"
                    /\ zoomLevel = 1
                    /\ activeUnit = Null
                    /\ breadcrumb = <<Crumb(1, "", 0)>>
              [] n.kind = "cluster" ->
                    /\ view = "cluster"
                    /\ zoomLevel = 2
                    /\ activeUnit = Some(n.unitCode)
                    /\ breadcrumb = <<Crumb(1, "", 0),
                                      Crumb(2, n.unitCode, 0)>>
              [] n.kind = "star" ->
                    /\ view = "star"
                    /\ zoomLevel = 3
                    /\ breadcrumb[Len(breadcrumb)] = Crumb(3, "", n.wordId)

====
